---- MODULE Spec2Model ----
(***************************************************************************)
(* Model of realsafe/attack/nes.py: the NES black-box attack.              *)
(*                                                                         *)
(* Numbers.  Tensors of shape x_shape are functions 1..Dim -> Int; every   *)
(* float of the program (inputs, eps, lr, logits) is a multiple of one     *)
(* fixed-point quantum, so the integers below count quanta.  A quotient    *)
(* that is not a whole number of quanta is rounded toward zero.  NaN is    *)
(* the result of 0/0 (the mean over an empty batch).                       *)
(***************************************************************************)
EXTENDS Integers, Sequences, FiniteSets, TLC

\* ------------------------------------------------------------------ bounds
NClass == 2              \* model.n_class
XMin == 0                \* model.x_min
XMax == 2                \* model.x_max
Margin == 1              \* inputs range over XMin - Margin .. XMax + Margin
MaxQueries == 4          \* largest configured max_queries
MaxPlateau == 2          \* largest configured plateau_length
MaxEps == 2              \* largest configured magnitude
MaxIters == MaxQueries + 2   \* saturation point of the iteration counter

Labels == 0..(NClass - 1)
Goals == {"ut", "tm", "t"}
Metrics == {"l_2", "l_inf"}
PertVals == {-1, 0, 1}   \* values of one element of a drawn perturbation
LogitVals == {0, 1}      \* values of one logit returned by the model

\* the number of elements of an input, model.x_shape
VARIABLE x_shape
Idx == 1..x_shape

\* -------------------------------------------------------------- arithmetic
NaN == 0 - 1000000
NaNVec == [i \in Idx |-> NaN]
IsNaN(v) == \E i \in Idx : v[i] = NaN

Abs(a) == IF a < 0 THEN 0 - a ELSE a
Sign(a) == IF a > 0 THEN 1 ELSE IF a < 0 THEN 0 - 1 ELSE 0
Max(a, b) == IF a >= b THEN a ELSE b
Min(a, b) == IF a <= b THEN a ELSE b
Half(a) == Sign(a) * (Abs(a) \div 2)

RECURSIVE SumTo(_, _)
SumTo(f, n) == IF n = 0 THEN 0 ELSE f[n] + SumTo(f, n - 1)

SumSq(v) == SumTo([i \in Idx |-> v[i] * v[i]], x_shape)
MaxAbs(v) == CHOOSE m \in {Abs(v[i]) : i \in Idx} : \A i \in Idx : Abs(v[i]) <= m

\* v * r / norm(v) for v # 0 and r >= 0, each element rounded toward zero
ScaleToNorm(v, r) ==
    LET s == SumSq(v)
        mag(a) == CHOOSE k \in 0..r : /\ k * k * s <= r * r * a * a
                                      /\ (k + 1) * (k + 1) * s > r * r * a * a
    IN  [i \in Idx |-> Sign(v[i]) * mag(v[i])]

\* tf.clip_by_value(t, lo, hi) = minimum(maximum(t, lo), hi)
clip_by_value(v, lo, hi) == [i \in Idx |-> Min(Max(v[i], lo), hi)]

\* tf.clip_by_norm(t, clip_norm), by its documented contract: t if
\* norm(t) <= clip_norm, else t * clip_norm / norm(t)
clip_by_norm(v, c) == IF SumSq(v) <= c * c THEN v ELSE ScaleToNorm(v, c)

\* ------------------------------------------------------------------- state
VARIABLES
    goal, distance_metric, samples_per_draw,     \* constructor arguments
    max_queries, self_lr, min_lr, lr_tuning, plateau_length, logger,  \* config
    x_var, x_adv_var, ys_var, eps_var, sigma_var, lr_var,   \* tf variables
    details,                                     \* details['queries']
    x, y, y_target,                              \* arguments of attack
    last_loss, queries, lr,                      \* locals of attack
    pc, ret,                                     \* position and return value
    label, iters,                                \* last label read, loop count
    tick,                                        \* parity of the loop count
    other                                        \* a suspended attack call

ctorVars == <<x_shape, goal, distance_metric, samples_per_draw>>
cfgVars == <<max_queries, self_lr, min_lr, lr_tuning, plateau_length, logger>>
tfVars == <<x_var, x_adv_var, ys_var, eps_var, sigma_var, lr_var>>
argVars == <<x, y, y_target>>
locVars == <<last_loss, queries, lr>>
\* what one attack call owns: its arguments, locals, position and result
callVars == <<argVars, locVars, pc, ret, label, iters, tick>>
vars == <<ctorVars, cfgVars, tfVars, details, callVars, other>>

None == << >>            \* no value yet
ZeroVec == [i \in Idx |-> 0]

\* ------------------------------------------------------- gradient estimate
PertsRepeated(drawn) ==
    LET k == samples_per_draw \div 2
    IN  [s \in 1..(2 * k) |-> IF s <= k THEN drawn[s] ELSE drawn[s - k]]

\* perts = concat([perts, -perts]), for the samples_per_draw // 2 drawn ones
Perts(drawn) ==
    LET k == samples_per_draw \div 2
    IN  [s \in 1..(2 * k) |-> IF s <= k THEN drawn[s]
                              ELSE [i \in Idx |-> 0 - drawn[s - k][i]]]

\* the margin logit loss of every sample against the labels in ys
Loss(logits, ys) ==
    [s \in 1..samples_per_draw |->
        LET this == logits[s][ys[s]]
            others == {logits[s][c] : c \in Labels \ {ys[s]}}
            that == CHOOSE m \in others : \A o \in others : o <= m
        IN  that - this]

\* np.mean(loss), kept as samples_per_draw * mean (entries of one run are
\* only compared with each other); the mean of no sample is NaN
MeanLoss(loss) ==
    IF samples_per_draw = 0 THEN NaN ELSE SumTo(loss, samples_per_draw)

GradAsIs(loss, perts) ==
    IF samples_per_draw = 0 THEN NaNVec
    ELSE [i \in Idx |->
            SumTo([s \in 1..samples_per_draw |-> loss[s] * perts[s][i]],
                  samples_per_draw)]

\* reduce_mean(loss * perts) / sigma, negated unless the goal is 'ut'; kept
\* as (samples_per_draw * sigma) * grad, a positive multiple of it
Grad(loss, perts) ==
    IF samples_per_draw = 0 THEN NaNVec
    ELSE LET g == [i \in Idx |->
                     SumTo([s \in 1..samples_per_draw |-> loss[s] * perts[s][i]],
                           samples_per_draw)]
         IN  IF goal # "ut" THEN [i \in Idx |-> 0 - g[i]] ELSE g

\* ---------------------------------------------------------------- update
\* lr * grad / max(1e-12, norm(grad))
StepL2(grad, rate) == IF SumSq(grad) = 0 THEN ZeroVec ELSE ScaleToNorm(grad, rate)

StepLinfZeroIsPositive(grad, rate) ==
    [i \in Idx |-> rate * (IF grad[i] >= 0 THEN 1 ELSE 0 - 1)]

\* lr * sign(grad)
StepLinf(grad, rate) == [i \in Idx |-> rate * Sign(grad[i])]

ProjectSkipped(delta, eps) == delta

\* the offset from x_var after the step, projected onto the eps ball
Project(delta, eps) ==
    IF distance_metric = "l_2" THEN clip_by_norm(delta, eps)
    ELSE clip_by_value(delta, 0 - eps, eps)

ClipRangeSkipped(v) == v

\* clip into the model's value range
ClipRange(v) == clip_by_value(v, XMin, XMax)

\* x_adv_next of update_x_adv_step
UpdateXAdv(orig, adv, grad, rate, eps) ==
    IF IsNaN(grad) \/ IsNaN(adv) THEN NaNVec
    ELSE LET step == IF distance_metric = "l_2" THEN StepL2(grad, rate)
                     ELSE StepLinf(grad, rate)
             delta == [i \in Idx |-> adv[i] - orig[i] + step[i]]
             proj == Project(delta, eps)
         IN  ClipRange([i \in Idx |-> orig[i] + proj[i]])

\* ---------------------------------------------------------------- schedule
\* last_loss[-plateau_length:]
Window(hist, n) ==
    IF n = 0 \/ Len(hist) <= n THEN hist
    ELSE SubSeq(hist, Len(hist) - n + 1, Len(hist))

Less(a, b) == a # NaN /\ b # NaN /\ a < b

PlateauLastBelowFirst(hist) ==
    /\ Len(hist) = plateau_length
    /\ Less(hist[Len(hist)], hist[1])

\* whether the full window shows the unfavourable trend
Plateau(hist) ==
    /\ Len(hist) = plateau_length
    /\ \/ goal = "ut" /\ Less(hist[Len(hist)], hist[1])
       \/ goal # "ut" /\ Less(hist[1], hist[Len(hist)])

\* lr = max(lr / 2, self.min_lr)
Backoff(rate) == Max(Half(rate), min_lr)

NextQueriesWithCheck(q) == q + samples_per_draw + 1

\* queries += self.samples_per_draw
NextQueries(q) == q + samples_per_draw

IsAdversarialTmAsTargeted(lab) ==
    IF goal = "ut" THEN lab # y ELSE lab = y_target

\* _is_adversarial, for the label the model predicts at x_adv
IsAdversarial(lab) ==
    IF goal = "ut" \/ goal = "tm" THEN lab # y ELSE lab = y_target

\* ------------------------------------------------------------ construction
\* The state after NES(model, goal, distance_metric, session, spd) and one
\* config call that sets every option; the arguments of the coming attack
\* call are chosen with it.
InitOver(c) ==
    /\ x_shape \in c.shapes
    /\ goal \in c.goals
    /\ distance_metric \in c.metrics
    /\ \E s \in c.spds : samples_per_draw = (s \div 2) * 2
    /\ max_queries \in c.budgets
    /\ self_lr \in c.lrs
    /\ min_lr \in c.minlrs
    /\ lr_tuning \in c.tunings
    /\ plateau_length \in c.plateaus
    /\ logger \in c.loggers
    /\ x_var = ZeroVec
    /\ x_adv_var = ZeroVec
    /\ ys_var = [s \in 1..samples_per_draw |-> 0]
    /\ eps_var \in c.epss
    /\ sigma_var = 1
    /\ lr_var = 0
    /\ details = {}
    /\ x \in [Idx -> c.xvals]
    /\ y \in Labels
    /\ y_target \in c.targets
    /\ last_loss = << >>
    /\ queries = 0
    /\ lr = 0
    /\ pc = "Idle"
    /\ ret = None
    /\ label = 0
    /\ iters = 0
    /\ tick = 0
    /\ other \in c.others

\* every goal, budget and schedule; one-element inputs inside the value range
Init ==
    InitOver([shapes |-> {1}, goals |-> Goals, metrics |-> {"l_inf"},
              spds |-> {2, 3}, budgets |-> 0..MaxQueries, lrs |-> {2, 4},
              minlrs |-> {0, 2, 4}, tunings |-> BOOLEAN,
              plateaus |-> 0..MaxPlateau, loggers |-> BOOLEAN, epss |-> {1},
              xvals |-> {XMin + 1}, targets |-> Labels,
              others |-> {None}])

\* every input, metric and magnitude on two-element inputs; one schedule
InitUpd ==
    InitOver([shapes |-> {2}, goals |-> {"ut"}, metrics |-> Metrics,
              spds |-> {2, 3}, budgets |-> {MaxQueries}, lrs |-> {1, 2},
              minlrs |-> {0}, tunings |-> {FALSE},
              plateaus |-> {MaxPlateau}, loggers |-> {FALSE},
              epss |-> 0..MaxEps,
              xvals |-> (XMin - Margin)..(XMax + Margin), targets |-> {0},
              others |-> {None}])

\* every samples_per_draw the constructor accepts; the window bounded
InitDraw ==
    InitOver([shapes |-> {1}, goals |-> {"ut", "t"}, metrics |-> {"l_inf"},
              spds |-> 1..5, budgets |-> 0..MaxQueries, lrs |-> {2},
              minlrs |-> {0}, tunings |-> BOOLEAN,
              plateaus |-> {MaxPlateau}, loggers |-> BOOLEAN, epss |-> {1},
              xvals |-> {XMin + 1}, targets |-> {1},
              others |-> {None}])

\* the smallest samples_per_draw values the constructor accepts
InitFair ==
    InitOver([shapes |-> {1}, goals |-> Goals, metrics |-> {"l_inf"},
              spds |-> {1, 2, 3}, budgets |-> 0..MaxQueries, lrs |-> {2},
              minlrs |-> {0}, tunings |-> BOOLEAN,
              plateaus |-> 1..MaxPlateau, loggers |-> {FALSE}, epss |-> {1},
              xvals |-> {XMin + 1}, targets |-> Labels,
              others |-> {None}])

\* every value of every argument; the schedule backs off within the budget
InitRerun ==
    InitOver([shapes |-> {1}, goals |-> {"ut", "t"}, metrics |-> {"l_inf"},
              spds |-> {2}, budgets |-> {0, MaxQueries}, lrs |-> {4},
              minlrs |-> {0}, tunings |-> {TRUE},
              plateaus |-> 1..MaxPlateau, loggers |-> {FALSE}, epss |-> {1},
              xvals |-> XMin..XMax, targets |-> Labels,
              others |-> {None}])

\* one configuration, to be changed by config calls before the attack
InitCfg ==
    InitOver([shapes |-> {1}, goals |-> {"ut"}, metrics |-> {"l_inf"},
              spds |-> {2}, budgets |-> {2}, lrs |-> {2},
              minlrs |-> {0}, tunings |-> {FALSE},
              plateaus |-> {1}, loggers |-> {FALSE}, epss |-> {1},
              xvals |-> {XMin + 1}, targets |-> {1},
              others |-> {None}])

\* step sizes that halve to different moves, every input, a full window
InitOrder ==
    InitOver([shapes |-> {1}, goals |-> {"ut", "t"}, metrics |-> {"l_inf"},
              spds |-> {2}, budgets |-> {MaxQueries}, lrs |-> {2},
              minlrs |-> {0}, tunings |-> BOOLEAN,
              plateaus |-> {MaxPlateau}, loggers |-> {FALSE}, epss |-> {MaxEps},
              xvals |-> XMin..XMax, targets |-> Labels,
              others |-> {None}])

\* every schedule setting, one budget and one input
InitSched ==
    InitOver([shapes |-> {1}, goals |-> Goals, metrics |-> {"l_inf"},
              spds |-> {2}, budgets |-> {MaxQueries}, lrs |-> {2, 4},
              minlrs |-> {0, 2, 4}, tunings |-> BOOLEAN,
              plateaus |-> 0..MaxPlateau, loggers |-> {FALSE}, epss |-> {1},
              xvals |-> {XMin + 1}, targets |-> {1},
              others |-> {None}])

\* a second attack call on the object, not yet started, with its arguments
IdleCalls ==
    {[x |-> [i \in 1..1 |-> v], y |-> l, y_target |-> t, last_loss |-> << >>,
      queries |-> 0, lr |-> 0, pc |-> "Idle", ret |-> None, label |-> 0,
      iters |-> 0, tick |-> 0] : v \in XMin..XMax, l \in Labels, t \in {1}}

\* two calls on one object
InitConc ==
    InitOver([shapes |-> {1}, goals |-> {"ut"}, metrics |-> {"l_inf"},
              spds |-> {2}, budgets |-> {2}, lrs |-> {4},
              minlrs |-> {0}, tunings |-> {TRUE},
              plateaus |-> {1}, loggers |-> {FALSE}, epss |-> {1},
              xvals |-> XMin..XMax, targets |-> {1},
              others |-> IdleCalls])

\* ------------------------------------------------------------------ config
MaxKeys == 2             \* most options passed in one config call

\* an option of a config call: absent, or present with a value
Opt(vals) ==
    {[has |-> FALSE, val |-> CHOOSE v \in vals : TRUE]}
        \cup {[has |-> TRUE, val |-> v] : v \in vals}

OptionNames ==
    {"magnitude", "max_queries", "sigma", "lr", "min_lr", "lr_tuning",
     "plateau_length", "logger"}

\* the values an option takes in the calls
OptionVals ==
    [magnitude |-> {1, 2}, max_queries |-> {0, 2}, sigma |-> {1, 2},
     lr |-> {2, 4}, min_lr |-> {0, 2}, lr_tuning |-> BOOLEAN,
     plateau_length |-> {1, 2}, logger |-> BOOLEAN]

\* the keyword arguments of a config call that passes at most n options
RECURSIVE KwargsUpTo(_)
KwargsUpTo(n) ==
    IF n = 0 THEN {[k \in OptionNames |-> CHOOSE o \in Opt(OptionVals[k]) : ~o.has]}
    ELSE LET less == KwargsUpTo(n - 1)
         IN  less \cup UNION {{[kw EXCEPT ![k] = o] : o \in Opt(OptionVals[k])} :
                                kw \in less, k \in OptionNames}

Kwargs == KwargsUpTo(MaxKeys)

SettingOrDefault(opt, old) == opt.val

\* if 'key' in kwargs: attribute = kwargs['key']
Setting(opt, old) == IF opt.has THEN opt.val ELSE old

\* lines 82-98: config(**kwargs), called between attack calls
Config(kw) ==
    /\ pc = "Idle"
    /\ eps_var' = Setting(kw.magnitude, eps_var)
    /\ max_queries' = Setting(kw.max_queries, max_queries)
    /\ sigma_var' = Setting(kw.sigma, sigma_var)
    /\ self_lr' = Setting(kw.lr, self_lr)
    /\ min_lr' = Setting(kw.min_lr, min_lr)
    /\ lr_tuning' = Setting(kw.lr_tuning, lr_tuning)
    /\ plateau_length' = Setting(kw.plateau_length, plateau_length)
    /\ logger' = Setting(kw.logger, logger)
    /\ UNCHANGED <<ctorVars, x_var, x_adv_var, ys_var, lr_var, details, callVars,
                   other>>

ConfigCall == \E kw \in Kwargs : Config(kw)

\* ------------------------------------------------------------------ attack
StartRateStale == IF details = {} THEN self_lr ELSE lr

\* line 108: lr = self.lr
StartRate == self_lr

AttackStartNoEarlyExit ==
    /\ pc = "Idle"
    /\ x_var' = x
    /\ x_adv_var' = x
    /\ ys_var' = [s \in 1..samples_per_draw |-> IF goal = "ut" THEN y ELSE y_target]
    /\ last_loss' = << >>
    /\ queries' = 0
    /\ lr' = StartRate
    /\ lr_var' = StartRate
    /\ iters' = 0
    /\ tick' = 0
    /\ \E lab \in Labels : label' = lab
    /\ pc' = "Running"
    /\ UNCHANGED <<ctorVars, cfgVars, argVars, eps_var, sigma_var, details, ret, other>>

\* lines 101-115: set the tf variables up, reset the locals, check the input
AttackStart ==
    /\ pc = "Idle"
    /\ x_var' = x
    /\ x_adv_var' = x
    /\ ys_var' = [s \in 1..samples_per_draw |-> IF goal = "ut" THEN y ELSE y_target]
    /\ last_loss' = << >>
    /\ queries' = 0
    /\ lr' = StartRate
    /\ lr_var' = StartRate
    /\ iters' = 0
    /\ tick' = 0
    /\ \E lab \in Labels :
         /\ label' = lab
         /\ IF IsAdversarial(lab)
            THEN details' = {0} /\ ret' = x /\ pc' = "Succeeded"
            ELSE details' = details /\ ret' = ret /\ pc' = "Running"
    /\ UNCHANGED <<ctorVars, cfgVars, argVars, eps_var, sigma_var, other>>

\* lines 121-132, the lr_tuning block: <<last_loss, lr, lr_var>> after it
Tune(hist, rate, ratevar, mean) ==
    IF lr_tuning
    THEN LET h == Window(Append(hist, mean), plateau_length)
         IN  IF Plateau(h) THEN << << >>, Backoff(rate), Backoff(rate) >>
             ELSE <<h, rate, ratevar>>
    ELSE <<hist, rate, ratevar>>

StepRateTuned(before, tuned) == tuned
\* line 118 runs the update in the same session.run as the loss, before the
\* tuning of lines 121-132: its step size is lr_var as it is before the tuning
StepRate(before, tuned) == before

\* lines 117-142: one iteration of the loop.  The update of line 118 reads
\* lr_var as the previous iteration left it.  The logger block of lines 134-138
\* reads label_pred and x_adv_var and assigns nothing.
LoopIter ==
    /\ pc = "Running"
    /\ queries < max_queries
    /\ \E drawn \in [1..(samples_per_draw \div 2) -> [Idx -> PertVals]],
          logits \in [1..samples_per_draw -> [Labels -> LogitVals]],
          lab \in Labels :
         LET perts == Perts(drawn)
             loss == Loss(logits, ys_var)
             grad == Grad(loss, perts)
             tuned == Tune(last_loss, lr, lr_var, MeanLoss(loss))
         IN  /\ x_adv_var' = UpdateXAdv(x_var, x_adv_var, grad,
                                     StepRate(lr_var, tuned[3]), eps_var)
             /\ queries' = NextQueries(queries)
             /\ last_loss' = tuned[1]
             /\ lr' = tuned[2]
             /\ lr_var' = tuned[3]
             /\ label' = lab
             /\ IF IsAdversarial(lab)
                THEN details' = {queries'} /\ ret' = x_adv_var' /\ pc' = "Succeeded"
                ELSE details' = details /\ ret' = ret /\ pc' = "Running"
    /\ iters' = Min(iters + 1, MaxIters)
    /\ tick' = 1 - tick
    /\ UNCHANGED <<ctorVars, cfgVars, argVars, x_var, ys_var, eps_var, sigma_var, other>>

\* lines 144-145: the budget is used up
LoopExit ==
    /\ pc = "Running"
    /\ ~(queries < max_queries)
    /\ details' = {queries}
    /\ ret' = x_adv_var
    /\ pc' = "Exhausted"
    /\ UNCHANGED <<ctorVars, cfgVars, argVars, tfVars, locVars, label, iters, tick, other>>

\* the caller has the result and calls attack again, with any arguments;
\* the tf variables, details and the configuration stay as the call left them
Recall ==
    /\ pc \in {"Succeeded", "Exhausted"}
    /\ pc' = "Idle"
    /\ x' \in [Idx -> XMin..XMax]
    /\ y' \in Labels
    /\ y_target' \in Labels
    /\ UNCHANGED <<ctorVars, cfgVars, tfVars, details, locVars, ret, label, iters,
                   tick, other>>

\* between two of its steps the running call is suspended and the other call
\* on the object goes on: the calls swap what they own, the object (its tf
\* variables, details and configuration) is the same for both
Switch ==
    /\ other # None
    /\ x' = other.x /\ y' = other.y /\ y_target' = other.y_target
    /\ last_loss' = other.last_loss /\ queries' = other.queries /\ lr' = other.lr
    /\ pc' = other.pc /\ ret' = other.ret /\ label' = other.label
    /\ iters' = other.iters /\ tick' = other.tick
    /\ other' = [x |-> x, y |-> y, y_target |-> y_target, last_loss |-> last_loss,
                 queries |-> queries, lr |-> lr, pc |-> pc, ret |-> ret,
                 label |-> label, iters |-> iters, tick |-> tick]
    /\ UNCHANGED <<ctorVars, cfgVars, tfVars, details>>

Next == AttackStart \/ LoopIter \/ LoopExit
NextRerun == AttackStart \/ LoopIter \/ LoopExit \/ Recall
NextCfg == AttackStart \/ LoopIter \/ LoopExit \/ ConfigCall
NextConc == AttackStart \/ LoopIter \/ LoopExit \/ Switch

Spec == Init /\ [][Next]_vars
SpecUpd == InitUpd /\ [][Next]_vars
SpecDraw == InitDraw /\ [][Next]_vars
\* the interpreter keeps executing the call: some step is always taken
SpecRerun == InitRerun /\ [][NextRerun]_vars
SpecCfg == InitCfg /\ [][NextCfg]_vars
SpecOrder == InitOrder /\ [][Next]_vars
SpecSched == InitSched /\ [][Next]_vars
SpecConc == InitConc /\ [][NextConc]_vars
FairSpec == InitFair /\ [][Next]_vars /\ WF_vars(Next)

\* ------------------------------------------------------------------ claims
Returned == pc \in {"Succeeded", "Exhausted"}
Offset == [i \in Idx |-> x_adv_var[i] - x[i]]
InRange(v) == \A i \in Idx : XMin <= v[i] /\ v[i] <= XMax
InBall(v, eps) ==
    IF distance_metric = "l_2" THEN SumSq(v) <= eps * eps ELSE MaxAbs(v) <= eps

C2_InBallAnyOrigin == iters > 0 => InBall(Offset, eps_var)

\* C2 amended: after every update step on an input whose elements all lie in
\* the value range, the offset x_adv_var - x lies in the eps ball of the metric.
C2_InBallOriginInRange == (iters > 0 /\ InRange(x)) => InBall(Offset, eps_var)

\* the candidate sits on the surface of a positive l_2 ball after an update
\* whose step was longer than the radius
C2_Witness ==
    /\ iters > 0
    /\ InRange(x)
    /\ distance_metric = "l_2"
    /\ eps_var > 0
    /\ lr_var > eps_var
    /\ SumSq(Offset) = eps_var * eps_var

\* C3: when the success predicate holds on the unmodified input, the call
\* returns the input itself, records 0 queries and runs no iteration.
C3_EarlyExit ==
    [][(pc = "Idle" /\ pc' # "Idle" /\ IsAdversarial(label'))
         => (pc' = "Succeeded" /\ ret' = x /\ details' = {0} /\ iters' = 0
             /\ queries' = 0 /\ x_adv_var' = x)]_vars

\* the input was adversarial at once although the budget allowed iterations
C3_Witness == pc = "Succeeded" /\ iters = 0 /\ max_queries > 0 /\ ret = x

\* C4 as stated: with max_queries < samples_per_draw, and the input not
\* adversarial, no iteration runs: the call returns the input and records 0.
C4_NoIterationBelowOneDraw ==
    (pc # "Idle" /\ max_queries < samples_per_draw)
        => (iters = 0 /\ (Returned => ret = x /\ details = {0}))

\* C5 as stated: the query counter, and the count recorded at the return,
\* never exceed max_queries.
C5_WithinBudget ==
    pc # "Idle" => (queries <= max_queries /\ \A q \in details : q <= max_queries)

\* C6: the query counter is samples_per_draw times the number of iterations
\* run, and that is the count recorded at the return; no check adds to it.
C6_QueryAccounting ==
    pc # "Idle" =>
        /\ queries = samples_per_draw * iters
        /\ Returned => details = {samples_per_draw * iters}

\* a run of four samples per draw that succeeded at the check after its first
\* iteration, on a budget that is no multiple of four
C6_Witness ==
    /\ pc = "Succeeded"
    /\ samples_per_draw = 4
    /\ max_queries = 3
    /\ iters = 1
    /\ details = {4}

\* C7 as stated: no iteration of a run increases the learning rate.
C7_LrNeverIncreases == [][pc = "Running" => lr' <= lr]_vars

\* C8 as stated: from the initialisation of a run on, lr and lr_var are at
\* least min_lr.
C8_LrFloored == pc # "Idle" => (lr >= min_lr /\ lr_var >= min_lr)

\* C9: a run ends Succeeded only with the success predicate true of the last
\* label read at the returned candidate (label # y for 'ut' and 'tm', label =
\* y_target for 't'), and Exhausted only with queries >= max_queries and the
\* predicate false at that last check.
C9_Success ==
    \/ goal \in {"ut", "tm"} /\ label # y
    \/ goal = "t" /\ label = y_target

C9_TerminalStates ==
    /\ pc = "Succeeded" => (C9_Success /\ ret = x_adv_var)
    /\ pc = "Exhausted" => (queries >= max_queries /\ ~C9_Success /\ ret = x_adv_var)

\* a 'tm' run succeeded after an iteration on a label that is not the target
C9_Witness == pc = "Succeeded" /\ goal = "tm" /\ iters > 0 /\ label # y_target

\* C10 as stated: every run eventually returns, whatever samples_per_draw the
\* constructor was given.
C10_Terminates == <>Returned

\* C11: every attack call starts from fresh state, whatever earlier calls on
\* the object left: when the call enters its loop, x_var and x_adv_var are the
\* new input, the query counter is 0, the loss history is empty, and lr and
\* lr_var are the configured lr.
C11_FreshStart ==
    [][(pc = "Idle" /\ pc' # "Idle")
         => /\ x_var' = x /\ x_adv_var' = x
            /\ queries' = 0 /\ last_loss' = << >> /\ iters' = 0
            /\ lr' = self_lr /\ lr_var' = self_lr
            /\ ys_var' = [s \in 1..samples_per_draw |->
                            IF goal = "ut" THEN y ELSE y_target]]_vars

\* a call enters its loop after an earlier call, which had backed lr off and
\* returned another candidate, has left its result behind
C11_Witness ==
    /\ pc = "Running"
    /\ iters = 0
    /\ details = {MaxQueries}
    /\ ret # None
    /\ ret # x
    /\ lr_var = self_lr
    /\ x_adv_var = x

\* C12: a config call changes exactly the options it is given: an option that
\* is absent from the call keeps its value, one that is present takes the
\* value passed, and nothing else of the object changes.
C12_OptionValue(opt, old, new) == IF opt.has THEN new = opt.val ELSE new = old

C12_ConfigFrame ==
    [][(pc = "Idle" /\ pc' = "Idle") =>
       \A kw \in Kwargs :
         Config(kw) =>
            /\ C12_OptionValue(kw.magnitude, eps_var, eps_var')
            /\ C12_OptionValue(kw.max_queries, max_queries, max_queries')
            /\ C12_OptionValue(kw.sigma, sigma_var, sigma_var')
            /\ C12_OptionValue(kw.lr, self_lr, self_lr')
            /\ C12_OptionValue(kw.min_lr, min_lr, min_lr')
            /\ C12_OptionValue(kw.lr_tuning, lr_tuning, lr_tuning')
            /\ C12_OptionValue(kw.plateau_length, plateau_length, plateau_length')
            /\ C12_OptionValue(kw.logger, logger, logger')
            /\ UNCHANGED <<ctorVars, x_var, x_adv_var, ys_var, lr_var, details>>]_vars

\* an attack runs after several config calls, each of which left the options
\* set by the others alone
C12_Witness ==
    /\ pc = "Running"
    /\ eps_var = 2
    /\ self_lr = 4
    /\ min_lr = 2
    /\ lr_tuning
    /\ logger
    /\ max_queries = 2
    /\ plateau_length = 1

\* C13 as stated: a call whose iterations are interleaved with those of
\* another call on the same object goes through the states it goes through
\* alone: whenever it is in its loop, the origin, the reference labels and the
\* step size of the update are its own, its candidate lies in the eps ball of
\* its own input, and before its first iteration the candidate is its input.
C13_OwnsItsState ==
    pc = "Running" =>
        /\ x_var = x
        /\ lr_var = lr
        /\ ys_var = [s \in 1..samples_per_draw |-> IF goal = "ut" THEN y ELSE y_target]
        /\ iters = 0 => x_adv_var = x
        /\ MaxAbs([i \in Idx |-> x_adv_var[i] - x[i]]) <= eps_var

\* C15: the effective samples_per_draw is even, and whatever is drawn, the
\* batch has samples_per_draw = 2k entries, entry i+k is the negation of entry
\* i for every i of the first half, and the entries sum to zero.
C15_Antithetic ==
    LET k == samples_per_draw \div 2
    IN  /\ samples_per_draw = 2 * k
        /\ \A drawn \in [1..k -> [Idx -> PertVals]] :
              LET p == Perts(drawn)
              IN  /\ DOMAIN p = 1..samples_per_draw
                  /\ \A s \in 1..k : \A i \in Idx :
                        /\ p[s][i] = drawn[s][i]
                        /\ p[s + k][i] = 0 - p[s][i]
                  /\ \A i \in Idx :
                        SumTo([s \in 1..samples_per_draw |-> p[s][i]], samples_per_draw) = 0

C15_Witness ==
    /\ pc = "Running" /\ iters = 1
    /\ samples_per_draw = 4 /\ queries = 4

\* the directions an l_inf step can take: the signs of a gradient
SignVecs == [Idx -> {-1, 0, 1}]

\* C16 as stated: when the plateau rule changes lr in an iteration, the update
\* of that same iteration has moved the candidate with the changed lr.
C16_UpdateUsesTunedRate ==
    [][(pc = "Running" /\ tick' # tick /\ lr' # lr) =>
          \E g \in SignVecs :
             x_adv_var' = UpdateXAdv(x_var, x_adv_var, g, lr', eps_var)]_vars

\* C16 amended: the update of an iteration runs with the gradient estimate,
\* before the plateau check, and moves the candidate with the lr the iteration
\* started with; an lr changed in iteration i is stored for the update of
\* iteration i+1.
C16_UpdateUsesRateBeforeTuning ==
    [][(pc = "Running" /\ tick' # tick) =>
          /\ lr_var = lr
          /\ \E g \in SignVecs :
                x_adv_var' = UpdateXAdv(x_var, x_adv_var, g, lr, eps_var)
          /\ lr_var' = lr']_vars

\* the second iteration has halved lr from 2 to 1 and has moved the
\* candidate by 2
C16_Witness ==
    /\ pc = "Running" /\ iters = 2
    /\ self_lr = 2 /\ lr = 1 /\ lr_var = 1
    /\ x = [i \in Idx |-> XMin] /\ x_adv_var = [i \in Idx |-> XMin + 2]

\* the mean losses an iteration can append, for the labels in ys_var
MeanLosses ==
    {MeanLoss(Loss(logits, ys_var)) :
        logits \in [1..samples_per_draw -> [Labels -> LogitVals]]}

\* the window after appending mean m holds exactly plateau_length entries and
\* its trend is unfavourable for the goal
C17_Unfavourable(m) ==
    LET h == Window(Append(last_loss, m), plateau_length)
        first == h[1]
        last == h[Len(h)]
    IN  /\ Len(h) = plateau_length
        /\ first # NaN /\ last # NaN
        /\ IF goal = "ut" THEN last < first ELSE last > first

\* C17 as stated: lr changes in an iteration if and only if lr_tuning is
\* enabled and the full window shows the unfavourable trend; a changed lr is
\* max(lr/2, min_lr) with the window reset; otherwise the window keeps its
\* entries with the oldest evicted; with lr_tuning disabled lr never changes
\* and the window stays empty.
C17_LrChangesIffPlateau ==
    [][(pc = "Running" /\ tick' # tick) =>
          \E m \in MeanLosses :
             /\ (lr' # lr) <=> (lr_tuning /\ C17_Unfavourable(m))
             /\ lr' # lr => /\ lr' = Max(Half(lr), min_lr)
                            /\ last_loss' = << >>
             /\ (lr' = lr /\ lr_tuning) =>
                    last_loss' = Window(Append(last_loss, m), plateau_length)
             /\ ~lr_tuning => last_loss' = << >>]_vars

\* C17 amended: the backoff runs in an iteration if and only if lr_tuning is
\* enabled and the full window shows the unfavourable trend; it sets lr to
\* max(lr/2, min_lr), which may be the lr it had, and resets the window;
\* without it lr is unchanged and the window keeps the appended entries with
\* the oldest evicted; with lr_tuning disabled lr never changes and the
\* window stays empty.
C17_BackoffIffPlateau ==
    [][(pc = "Running" /\ tick' # tick) =>
          \E m \in MeanLosses :
             IF lr_tuning /\ C17_Unfavourable(m)
             THEN /\ lr' = Max(Half(lr), min_lr)
                  /\ last_loss' = << >>
             ELSE /\ lr' = lr
                  /\ last_loss' = IF lr_tuning
                                  THEN Window(Append(last_loss, m), plateau_length)
                                  ELSE << >>]_vars

\* the second iteration has run the backoff with lr at its floor: the window
\* is reset and lr is what it was
C17_Witness ==
    /\ pc = "Running" /\ iters = 2 /\ lr_tuning
    /\ plateau_length = 2 /\ last_loss = << >>
    /\ min_lr = 2 /\ self_lr = 2 /\ lr = 2

\* C18 as stated: with lr_tuning enabled the loss history window holds at
\* most plateau_length entries at every iteration boundary, for every
\* plateau_length >= 0.
C18_WindowBounded ==
    (lr_tuning /\ pc # "Idle") => Len(last_loss) <= plateau_length

\* C19 as stated: the margin loss is computed against the true label y for
\* the goals 'ut' and 'tm' and against y_target only for the goal 't'.
C19_TrueLabelUnlessStrictlyTargeted ==
    pc # "Idle" =>
        ys_var = [s \in 1..samples_per_draw |->
                     IF goal \in {"ut", "tm"} THEN y ELSE y_target]

\* the margin of sample s against label ref: the largest other logit minus
\* the logit of ref
C19_Margin(logits, s, ref) ==
    LET others == {logits[s][c] : c \in Labels \ {ref}}
    IN  (CHOOSE m \in others : \A o \in others : o <= m) - logits[s][ref]

\* C19 amended: the margin loss is computed against the true label y only for
\* the goal 'ut' and against y_target for the goals 'tm' and 't'; the
\* gradient estimate is the sum of loss times perturbation, as it is for 'ut'
\* and negated for 'tm' and 't'.
C19_TargetLabelUnlessUntargeted ==
    pc # "Idle" =>
        LET ref == IF goal = "ut" THEN y ELSE y_target
        IN  /\ ys_var = [s \in 1..samples_per_draw |-> ref]
            /\ \A drawn \in [1..(samples_per_draw \div 2) -> [Idx -> PertVals]],
                  logits \in [1..samples_per_draw -> [Labels -> LogitVals]] :
                  LET perts == Perts(drawn)
                      loss == Loss(logits, ys_var)
                      raw == [i \in Idx |->
                                SumTo([s \in 1..samples_per_draw |->
                                          C19_Margin(logits, s, ref) * perts[s][i]],
                                      samples_per_draw)]
                  IN  /\ \A s \in 1..samples_per_draw :
                            loss[s] = C19_Margin(logits, s, ref)
                      /\ Grad(loss, perts) =
                            IF goal = "ut" THEN raw ELSE [i \in Idx |-> 0 - raw[i]]

\* an iteration of a 'tm' run whose target differs from the true label
C19_Witness ==
    /\ pc = "Running" /\ iters >= 1
    /\ goal = "tm" /\ y # y_target
    /\ ys_var = [s \in 1..samples_per_draw |-> y_target]

====
